---- MODULE Spec2Model ----
(***************************************************************************)
(* DocChat: the chat request handlers (streaming SSE handler and JSON      *)
(* handler) with their bounded tool-call loop, and the file vector store   *)
(* (indexDocument / deleteDocumentChunks / readers).                       *)
(***************************************************************************)
EXTENDS Integers, Sequences, FiniteSets, TLC

\* ------------------------------------------------------------------ bounds
\* collaborator outputs in one request other than the plain ones (a completion
\* that is one well-formed search_web call, a web search with a usable result):
\* completions of any other shape, web searches that come back without a result
MaxExtras == 2

\* what happens to the store: calls of indexDocument and deleteDocumentChunks,
\* reads by searchSimilarChunks / getAllDocumentChunks, embeddings that fail
MaxOps == 4

\* chunkText on the small grid: text lengths up to MaxTextLen, chunkSize and
\* overlap up to MaxChunkSize
MaxTextLen == 8
MaxChunkSize == 4

\* ------------------------------------------------------- program constants
maxIterations == 5
batchSize == 5
indexChunkSize == 1000
indexOverlap == 200
safetyMargin == 100
generalLimit == 25
fallbackThreshold == 10
fallbackCap == 50
defaultLimit == 5

\* ------------------------------------------------------------------- state
VARIABLES
  handler,        \* "stream" (chat/stream route) or "json" (chat route)
  pc,             \* position of the handler
  question, documentIds, limit,     \* the destructured request body
  isGeneral, contextChunks, contextText,
  messages,       \* the conversation history sent to the model
  usedWebSearch, iterationCount,
  stream,         \* chunks of the open completion stream not yet read
  messageContent, toolCalls,        \* per-round accumulators
  toolPos,        \* position of the for..of loop over the round's tool calls
  query,          \* the parsed query of the tool call being executed
  answer,         \* JSON handler only
  events,         \* SSE events enqueued on the controller, in order
  closed,         \* controller.close() was called
  connected,      \* the client still reads the response stream
  response,       \* JSON handler: the NextResponse returned
  \* history variables (observers, never read by the handlers)
  modelCalls,     \* chat-completion calls issued
  deltasSeen,     \* the content field of every delta that arrived, in order
  fragsSeen,      \* the tool-call fragments read from the open stream, in order
  searchesRun,    \* searchWeb calls that were executed
  searchFailed,   \* the document search threw
  limitHit,       \* the loop ended because iterationCount reached maxIterations
  closedAt,       \* Len(events) when the stream was closed
  nExtra          \* collaborator outputs other than the plain ones, so far (bounded)

reqVars  == << question, documentIds, limit >>
ctxVars  == << isGeneral, contextChunks, contextText >>
loopVars == << messages, usedWebSearch, iterationCount, stream, messageContent,
               toolCalls, toolPos, query, answer >>
outVars  == << events, closed, closedAt, response >>
histVars == << modelCalls, deltasSeen, fragsSeen, searchesRun, searchFailed, limitHit, nExtra >>

chatVars == << handler, pc, connected, reqVars, ctxVars, loopVars, outVars, histVars >>

VARIABLES
  store,          \* the rows of table document_chunks
  idx,            \* the indexDocument calls: one record per caller
  lastWrite,      \* per document: the write operation started last (history)
  lastDelete,     \* the last deleteDocumentChunks call and its result.changes (history)
  nOps            \* calls, reads and failed embeddings so far (bounded)

storeVars == << store, idx, lastWrite, lastDelete, nOps >>

VARIABLES
  call,           \* a call of a library function: its name and arguments
  result          \* what that call returned or threw

fnVars == << call, result >>

VARIABLES
  metadataFile,   \* storage/metadata.json: the array of document entries
  meta,           \* the addDocumentMetadata / removeDocumentMetadata calls: one record per caller
  expected,       \* the documents added and not removed, by the calls that completed (history)
  nMeta           \* calls started so far (bounded)

metaVars == << metadataFile, meta, expected, nMeta >>

VARIABLES
  nuxt            \* a call of the chunkText of the Nuxt server code: its arguments and locals

vars == << chatVars, storeVars, fnVars, metaVars, nuxt >>

\* ---------------------------------------------------------------- inputs
Handlers == {"stream", "json"}

\* the `question` field of the body: absent, not a string, empty, or a string
Questions ==
  { [t |-> "undefined", v |-> ""],
    [t |-> "number",    v |-> "42"],
    [t |-> "string",    v |-> ""],
    [t |-> "string",    v |-> "Summarize this document"],
    [t |-> "string",    v |-> "What was the revenue in Q3?"] }

DocIdLists == { <<>>, <<"d1">> }
\* the `limit` field of the body: it is passed on as it came, so it can be any number
Limits == { -1, defaultLimit }
\* number of stored chunks that match the documentIds filter when a read runs
CorpusSizes == { 0, 4, 12, 60 }

GoodArgs == "{\"query\":\"q\"}"
ArgTail  == "}"

Min(a, b) == IF a < b THEN a ELSE b

\* the length of results.slice(0, k) for an array of c entries: a negative k
\* counts from the end of the array
SliceLen(c, k) == IF k < 0 THEN (IF c + k > 0 THEN c + k ELSE 0) ELSE Min(k, c)

QuestionRejectedFalsyOnly(q) == q.v = ""

\* !question || typeof question !== 'string'
QuestionRejected(q) == q.v = "" \/ q.t # "string"

\* generalPatterns.some(p => p.test(lowerQuestion)) on the sample questions:
\* "summarize this document" matches /(summarize|summary|summarise)/,
\* "what was the revenue in q3?" matches none ("what was" is not in pattern 1).
isGeneralQuestion(q) == q.v \in {"Summarize this document"}

\* JSON.parse(toolCall.function.arguments || '{}') followed by `const { query } =`
\* on the strings the model can produce here; "" is parsed as '{}'.
ParsedArgs == { "", "{}", GoodArgs }
JsonParses(s) == s \in ParsedArgs
QueryOf(s) == IF s = GoodArgs THEN "q" ELSE "undefined"

\* `limit` is read in one place, the search of a Specific question; the bodies
\* of the other requests are taken with the default limit
LimitIsRead(q, ids) == Len(ids) > 0 /\ ~isGeneralQuestion(q)

\* ------------------------------------------------------------ SSE helpers
sendSSE(evs, ev) == Append(evs, ev)

ToolStart(tool) == [type |-> "tool_start", tool |-> tool]
ToolEnd(tool, msg) == [type |-> "tool_end", tool |-> tool, message |-> msg]
Content(c) == [type |-> "content", chunk |-> c]
ErrorEvent(e) == [type |-> "error", error |-> e]
DoneEvent(hc, n, w) ==
  [type |-> "done", hasContext |-> hc, chunksUsed |-> n, usedWebSearch |-> w]

IsTerminal(e) == e.type \in {"done", "error"}

\* ------------------------------------------------------------ error texts
BadBody      == "Unexpected token in JSON"
QuestionReq  == "Question is required and must be a string"
NoApiKey     == "OPENAI_API_KEY environment variable is not set"
ModelError   == "model call failed"
TypeErr      == "Cannot read properties of undefined (reading 'function')"
SearchError  == "document search failed"
Apology      == "I apologize, but I could not generate an answer."
Fallback     == "I apologize, but I encountered an issue while processing your request. Please try again."

NoResponse == [status |-> 0]

\* ------------------------------------------------------------------- Init
ChatInit ==
  /\ handler \in Handlers
  /\ pc = "start"
  /\ question = [t |-> "undefined", v |-> ""]
  /\ documentIds = <<>>
  /\ limit = defaultLimit
  /\ isGeneral = FALSE
  /\ contextChunks = 0          \* the array, represented by its length
  /\ contextText = ""
  /\ messages = <<>>
  /\ usedWebSearch = FALSE
  /\ iterationCount = 0
  /\ stream = <<>>
  /\ messageContent = ""
  /\ toolCalls = <<>>
  /\ toolPos = 0
  /\ query = ""
  /\ answer = ""
  /\ events = <<>>
  /\ closed = FALSE
  /\ connected = TRUE
  /\ closedAt = 0
  /\ response = NoResponse
  /\ modelCalls = 0
  /\ deltasSeen = <<>>
  /\ fragsSeen = <<>>
  /\ searchesRun = 0
  /\ searchFailed = FALSE
  /\ limitHit = FALSE
  /\ nExtra = 0

\* --------------------------------------------------- the outer catch block
OuterCatchSilent(evs, msg) == evs

\* stream handler: sendSSE(controller, 'error', { error: error.message })
OuterCatchEvents(evs, msg) == sendSSE(evs, ErrorEvent(msg))

\* catch (error) { ... } of POST: the stream handler sends `error` and closes,
\* the JSON handler answers 500.  evs: the events enqueued before the throw.
OuterCatch(evs, msg) ==
  /\ events' = IF handler = "stream" THEN OuterCatchEvents(evs, msg) ELSE evs
  /\ closed' = (handler = "stream")
  /\ closedAt' = IF handler = "stream" THEN Len(events') ELSE closedAt
  /\ response' = IF handler = "json"
                   THEN [status |-> 500, success |-> FALSE, error |-> msg]
                   ELSE response
  /\ pc' = "finished"

\* ---------------------------------------------------------- request body
\* await request.json(), destructuring, and the validation of `question`
ParseRequest ==
  /\ pc = "start"
  /\ \/ /\ OuterCatch(events, BadBody)
        /\ UNCHANGED reqVars
     \/ \E q \in Questions, ids \in DocIdLists, l \in Limits :
          /\ LimitIsRead(q, ids) \/ l = defaultLimit
          /\ question' = q
          /\ documentIds' = ids
          /\ limit' = l
          /\ IF QuestionRejected(q)
               THEN /\ events' = IF handler = "stream"
                                   THEN sendSSE(events, ErrorEvent(QuestionReq))
                                   ELSE events
                    /\ closed' = (handler = "stream")
                    /\ closedAt' = IF handler = "stream" THEN Len(events') ELSE closedAt
                    /\ response' = IF handler = "json"
                                     THEN [status |-> 400, success |-> FALSE,
                                           error |-> QuestionReq]
                                     ELSE response
                    /\ pc' = "finished"
               ELSE /\ pc' = IF Len(ids) > 0 THEN "docsearch" ELSE "seed"
                    /\ UNCHANGED outVars
  /\ UNCHANGED << storeVars, fnVars, metaVars, nuxt, handler, connected, ctxVars, loopVars, histVars >>

\* ------------------------------------------------------- document search
\* tool_start, isGeneral = isGeneralQuestion(question), first search issued
DocSearchStart ==
  /\ pc = "docsearch"
  /\ events' = IF handler = "stream"
                 THEN sendSSE(events, ToolStart("document_search"))
                 ELSE events
  /\ isGeneral' = isGeneralQuestion(question)
  /\ pc' = "search"
  /\ UNCHANGED << storeVars, fnVars, metaVars, nuxt, handler, connected, reqVars, contextChunks, contextText, loopVars,
                  closed, closedAt, response, histVars >>

\* a throw inside the search is passed on to the outer catch
SearchRethrow ==
  /\ OuterCatch(events, SearchError)
  /\ searchFailed' = TRUE
  /\ UNCHANGED << contextChunks, contextText >>

\* catch (error) of the document search: tool_end, continue without context
SearchCatch ==
  /\ events' = IF handler = "stream"
                 THEN sendSSE(events, ToolEnd("document_search", <<"Error searching documents">>))
                 ELSE events
  /\ searchFailed' = TRUE
  /\ pc' = "seed"
  /\ UNCHANGED << contextChunks, contextText, closed, closedAt, response >>

\* contextChunks.length > 0 ? group by document, build contextText : nothing
Assemble(n) ==
  /\ contextChunks' = n
  /\ contextText' = IF n > 0 THEN "[Document: d]" ELSE ""
  /\ events' = IF handler = "stream"
                 THEN sendSSE(events,
                        ToolEnd("document_search",
                                IF n > 0 THEN <<"Found relevant chunks", n>>
                                         ELSE <<"No relevant chunks found">>))
                 ELSE events
  /\ pc' = "seed"
  /\ UNCHANGED << closed, closedAt, response, searchFailed >>

\* await searchSimilarChunks(question, isGeneral ? 25 : limit, documentIds)
SearchReturns ==
  /\ pc = "search"
  /\ \/ SearchCatch
     \/ \E c \in CorpusSizes :
          LET n == SliceLen(c, IF isGeneral THEN generalLimit ELSE limit) IN
          IF isGeneral /\ n < fallbackThreshold
            THEN /\ contextChunks' = n
                 /\ pc' = "getall"
                 /\ UNCHANGED << contextText, outVars, searchFailed >>
            ELSE Assemble(n)
  /\ UNCHANGED << storeVars, fnVars, metaVars, nuxt, handler, connected, reqVars, isGeneral, loopVars,
                  modelCalls, deltasSeen, fragsSeen, searchesRun, limitHit, nExtra >>

\* await getAllDocumentChunks(documentIds); contextChunks = allChunks.slice(0, 50)
GetAllReturns ==
  /\ pc = "getall"
  /\ \/ SearchCatch
     \/ \E c \in CorpusSizes : Assemble(Min(c, fallbackCap))
  /\ UNCHANGED << storeVars, fnVars, metaVars, nuxt, handler, connected, reqVars, isGeneral, loopVars,
                  modelCalls, deltasSeen, fragsSeen, searchesRun, limitHit, nExtra >>

\* ------------------------------------------------- prompts and history
PromptVariant ==
  IF contextText # ""
    THEN IF isGeneral THEN "general-with-context" ELSE "specific-with-context"
    ELSE "no-context"

\* getOpenAIClient(), systemPrompt, userPrompt, messages = [system, user]
Seed ==
  /\ pc = "seed"
  /\ \/ /\ OuterCatch(events, NoApiKey)
        /\ UNCHANGED messages
     \/ /\ messages' = << [role |-> "system", content |-> PromptVariant],
                          [role |-> "user", content |-> PromptVariant] >>
        /\ pc' = "loop"
        /\ UNCHANGED outVars
  /\ UNCHANGED << storeVars, fnVars, metaVars, nuxt, handler, connected, reqVars, ctxVars, usedWebSearch, iterationCount, stream,
                  messageContent, toolCalls, toolPos, query, answer, histVars >>

\* ------------------------------------------------------ the model's output
ArgHead == "{\"query\":"
ArgRest == "\"q\"}"

\* one chunk of the completion stream: chunk.choices[0].delta
CDelta(c) == [content |-> c, tool_calls |-> <<>>]
\* a tool-call fragment { index, id, function: { name, arguments } }
TDelta(i, id, n, a) ==
  [content |-> "", tool_calls |-> << [index |-> i, id |-> id, name |-> n, arguments |-> a] >>]

PlainCall == [id |-> "c1", name |-> "search_web", arguments |-> GoodArgs]
PlainStream == << TDelta(0, "c1", "search_web", GoodArgs) >>
PlainResults == << [title |-> "T", snippet |-> "S", url |-> "u"] >>

\* the completion streams the model can answer with (stream handler)
StreamCompletions ==
  { PlainStream,
    <<>>,
    << CDelta("a"), CDelta(""), CDelta("b") >>,
    << CDelta("a"), TDelta(0, "c1", "search_web", GoodArgs) >>,
    << TDelta(0, "c1", "search_web", ""), TDelta(0, "", "", ArgHead), TDelta(0, "", "", ArgRest) >>,
    << TDelta(0, "c1", "search_web", GoodArgs), TDelta(0, "", "", ArgTail) >>,
    << TDelta(0, "c2", "lookup", "") >>,
    << TDelta(0, "c1", "search_web", ArgHead), TDelta(1, "c3", "search_web", ""),
       TDelta(0, "", "", ArgRest) >>,
    << TDelta(0, "c1", "search_web", ArgTail), TDelta(1, "c3", "search_web", GoodArgs) >>,
    << TDelta(1, "c3", "search_web", GoodArgs) >> }

\* completion.choices[0]?.message of the JSON handler
PlainMessage == [content |-> "", tool_calls |-> << PlainCall >>]
JsonMessages ==
  { PlainMessage,
    [content |-> "",  tool_calls |-> <<>>],
    [content |-> "a", tool_calls |-> <<>>],
    [content |-> "a", tool_calls |-> << PlainCall >>],
    [content |-> "",  tool_calls |-> << [id |-> "c1", name |-> "search_web", arguments |-> ArgTail] >>],
    [content |-> "",  tool_calls |-> << [id |-> "c2", name |-> "lookup", arguments |-> ""] >>],
    [content |-> "",  tool_calls |-> << PlainCall, [id |-> "c3", name |-> "search_web", arguments |-> ""] >>],
    [content |-> "",  tool_calls |-> << [id |-> "c1", name |-> "search_web", arguments |-> ArgTail],
                                        [id |-> "c3", name |-> "search_web", arguments |-> GoodArgs] >>] }

\* what searchWeb(query, 5) resolves to; it catches its own errors and then
\* returns one placeholder entry
WebResults ==
  { PlainResults,
    << [title |-> "No results found", snippet |-> "unable to", url |-> ""] >>,
    << [title |-> "Search Error", snippet |-> "unable to", url |-> ""] >> }

\* searchResults.filter(r => r.title && r.title !== 'No results found' && ...)
ValidResult(r) ==
  /\ r.title # ""
  /\ r.title # "No results found"
  /\ r.title # "Search Error"
  /\ r.snippet # ""
  /\ r.snippet \notin {"unable to", "error"}
validResults(rs) == SelectSeq(rs, ValidResult)

\* ------------------------------------------- accumulation of tool calls
\* an array slot never assigned (toolCalls[1] set while toolCalls[0] is not)
Hole == [hole |-> TRUE]
IsHole(tc) == "hole" \in DOMAIN tc

\* toolCalls[index] = v, JavaScript array semantics (index is 0-based)
SetAt(a, index, v) ==
  [ i \in 1 .. (IF index + 1 > Len(a) THEN index + 1 ELSE Len(a)) |->
      IF i = index + 1 THEN v ELSE IF i <= Len(a) THEN a[i] ELSE Hole ]

AccumulateOverwrite(a, d) ==
  SetAt(a, d.index, [id |-> d.id, name |-> d.name, arguments |-> d.arguments])

\* the body of `for (const toolCallDelta of delta.tool_calls)` for one fragment
Accumulate(a, d) ==
  LET fresh == d.index + 1 > Len(a) \/ IsHole(a[d.index + 1])
      cur == IF fresh
               THEN [id |-> d.id, name |-> "", arguments |-> ""]
               ELSE a[d.index + 1]
      new == [id |-> IF d.id # "" THEN d.id ELSE cur.id,
              name |-> cur.name \o d.name,
              arguments |-> cur.arguments \o d.arguments]
  IN SetAt(a, d.index, new)

\* ------------------------------------------------------------- the loop
LoopContinuesOffByOne(n) == n <= maxIterations

\* while (iterationCount < maxIterations)
LoopContinues(n) == n < maxIterations

\* iterationCount++, `thinking` on the first round, chat.completions.create(...)
CallModel ==
  /\ pc = "loop"
  /\ LoopContinues(iterationCount)
  /\ iterationCount' = iterationCount + 1
  /\ events' = IF handler = "stream" /\ iterationCount' = 1
                 THEN sendSSE(events, [type |-> "thinking"])
                 ELSE events
  /\ modelCalls' = modelCalls + 1
  /\ pc' = "create"
  /\ UNCHANGED << storeVars, fnVars, metaVars, nuxt, handler, connected, reqVars, ctxVars, messages, usedWebSearch, stream,
                  messageContent, toolCalls, toolPos, query, answer, closed, closedAt,
                  response, deltasSeen, fragsSeen, searchesRun, searchFailed, limitHit, nExtra >>

\* the while condition is false: fall out of the loop
LoopExit ==
  /\ pc = "loop"
  /\ ~LoopContinues(iterationCount)
  /\ pc' = "after"
  /\ limitHit' = TRUE
  /\ UNCHANGED << storeVars, fnVars, metaVars, nuxt, handler, connected, reqVars, ctxVars, loopVars, outVars, modelCalls, deltasSeen, fragsSeen,
                  searchesRun, searchFailed, nExtra >>

AssistantMessage(c, tcs) == [role |-> "assistant", content |-> c, tool_calls |-> tcs]

\* an output that is not the plain one is charged to the budget
Charge(plain) ==
  /\ plain \/ nExtra < MaxExtras
  /\ nExtra' = IF plain THEN nExtra ELSE nExtra + 1

\* the create call settles.  Stream handler: the stream is open, the round's
\* accumulators are reset.  JSON handler: the whole message is there.
CreateReturns ==
  /\ pc = "create"
  /\ \/ /\ OuterCatch(events, ModelError)
        /\ UNCHANGED << loopVars, nExtra, fragsSeen >>
     \/ /\ handler = "stream"
        /\ \E comp \in StreamCompletions :
             /\ Charge(comp = PlainStream)
             /\ stream' = comp
        /\ messageContent' = ""
        /\ toolCalls' = <<>>
        /\ fragsSeen' = <<>>
        /\ pc' = "streaming"
        /\ UNCHANGED << messages, usedWebSearch, iterationCount, toolPos, query, answer,
                        outVars >>
     \/ /\ handler = "json"
        /\ answer' = Apology
        /\ pc' = "after"
        /\ UNCHANGED << messages, usedWebSearch, iterationCount, stream, messageContent,
                        toolCalls, toolPos, query, outVars, nExtra, fragsSeen >>
     \/ /\ handler = "json"
        /\ \E m \in JsonMessages :
             /\ Charge(m = PlainMessage)
             /\ messages' = Append(messages, AssistantMessage(m.content, m.tool_calls))
             /\ toolCalls' = m.tool_calls
             /\ IF Len(m.tool_calls) > 0
                  THEN /\ toolPos' = 1
                       /\ pc' = "tools"
                       /\ UNCHANGED answer
                  ELSE /\ answer' = IF m.content # "" THEN m.content ELSE Apology
                       /\ pc' = "after"
                       /\ UNCHANGED toolPos
        /\ UNCHANGED << usedWebSearch, iterationCount, stream, messageContent, query,
                        outVars, fragsSeen >>
  /\ UNCHANGED << storeVars, fnVars, metaVars, nuxt, handler, connected, reqVars, ctxVars, modelCalls, deltasSeen, searchesRun,
                  searchFailed, limitHit >>

ForwardEvery(evs, c) == sendSSE(evs, Content(c))

\* if (delta.content) sendSSE(controller, 'content', { chunk: delta.content })
ForwardContent(evs, c) == IF c # "" THEN sendSSE(evs, Content(c)) ELSE evs

RECURSIVE AccumulateAll(_, _)
\* for (const toolCallDelta of delta.tool_calls) { ... }
AccumulateAll(a, ds) ==
  IF ds = <<>> THEN a ELSE AccumulateAll(Accumulate(a, Head(ds)), Tail(ds))

\* one iteration of `for await (const chunk of completion)`
StreamChunk ==
  /\ pc = "streaming"
  /\ stream # <<>>
  /\ LET d == Head(stream) IN
       /\ deltasSeen' = Append(deltasSeen, d.content)
       /\ fragsSeen' = fragsSeen \o d.tool_calls
       /\ messageContent' = messageContent \o d.content
       /\ events' = ForwardContent(events, d.content)
       /\ toolCalls' = AccumulateAll(toolCalls, d.tool_calls)
  /\ stream' = Tail(stream)
  /\ UNCHANGED << storeVars, fnVars, metaVars, nuxt, handler, connected, pc, reqVars, ctxVars, messages, usedWebSearch, iterationCount,
                  toolPos, query, answer, closed, closedAt, response,
                  modelCalls, searchesRun, searchFailed, limitHit, nExtra >>

\* the completion stream breaks while it is being read
StreamThrows ==
  /\ pc = "streaming"
  /\ OuterCatch(events, ModelError)
  /\ UNCHANGED << storeVars, fnVars, metaVars, nuxt, handler, connected, reqVars, ctxVars, loopVars, histVars >>

\* the stream is exhausted: messages.push(message); tool calls or final answer
StreamEnds ==
  /\ pc = "streaming"
  /\ stream = <<>>
  /\ messages' = Append(messages, AssistantMessage(messageContent, toolCalls))
  /\ IF Len(toolCalls) > 0
       THEN pc' = "tools" /\ toolPos' = 1
       ELSE pc' = "after" /\ UNCHANGED toolPos
  /\ fragsSeen' = <<>>
  /\ UNCHANGED << storeVars, fnVars, metaVars, nuxt, handler, connected, reqVars, ctxVars, usedWebSearch, iterationCount, stream,
                  messageContent, toolCalls, query, answer, outVars,
                  modelCalls, deltasSeen, searchesRun, searchFailed, limitHit, nExtra >>

\* --------------------------------------------------- tool-call execution
ToolMessage(id, c) == [role |-> "tool", tool_call_id |-> id, content |-> c]

ParseCatchDrops(msgs, tc) == msgs

\* catch (error) of one tool call: messages.push({ role: 'tool', ... error text })
ParseCatchMessages(msgs, tc) ==
  Append(msgs, ToolMessage(tc.id, <<"Error performing web search">>))

MarkSearchedKeeps(u) == u

\* usedWebSearch = true, right after `await searchWeb(query, 5)`
MarkSearched(u) == TRUE

\* one step of `for (const toolCall of toolCalls)` up to its first await
ExecTool ==
  /\ pc = "tools"
  /\ IF toolPos > Len(toolCalls)
       THEN \* every call is handled: `continue` to the next round
            /\ pc' = "loop"
            /\ UNCHANGED << messages, toolPos, query, outVars >>
       ELSE LET tc == toolCalls[toolPos] IN
            IF IsHole(tc)
              THEN \* toolCall is undefined: toolCall.function throws
                   /\ OuterCatch(events, TypeErr)
                   /\ UNCHANGED << messages, toolPos, query >>
              ELSE IF tc.name # "search_web"
                THEN /\ toolPos' = toolPos + 1
                     /\ UNCHANGED << pc, messages, query, outVars >>
                ELSE IF ~JsonParses(tc.arguments)
                  THEN \* JSON.parse throws before tool_start is sent
                       /\ events' = IF handler = "stream"
                                      THEN sendSSE(events,
                                             ToolEnd("web_search", <<"Web search error occurred">>))
                                      ELSE events
                       /\ messages' = ParseCatchMessages(messages, tc)
                       /\ toolPos' = toolPos + 1
                       /\ UNCHANGED << pc, query, closed, closedAt, response >>
                  ELSE /\ query' = QueryOf(tc.arguments)
                       /\ events' = IF handler = "stream"
                                      THEN sendSSE(events, ToolStart("web_search"))
                                      ELSE events
                       /\ pc' = "websearch"
                       /\ UNCHANGED << messages, toolPos, closed, closedAt, response >>
  /\ UNCHANGED << storeVars, fnVars, metaVars, nuxt, handler, connected, reqVars, ctxVars, usedWebSearch, iterationCount, stream,
                  messageContent, toolCalls, answer, histVars >>

\* searchWeb settles: filter, format, tool_end, push the tool message
WebSearchReturns ==
  /\ pc = "websearch"
  /\ \E rs \in WebResults :
       LET n == Len(validResults(rs)) IN
       /\ Charge(rs = PlainResults)
       /\ usedWebSearch' = MarkSearched(usedWebSearch)
       /\ searchesRun' = searchesRun + 1
       /\ events' = IF handler = "stream"
                      THEN sendSSE(events, ToolEnd("web_search", <<"Found result(s)", n>>))
                      ELSE events
       /\ messages' = Append(messages,
                        ToolMessage(toolCalls[toolPos].id,
                                    IF n > 0 THEN <<"Web search performed", query, n>>
                                             ELSE <<"Web search performed", query,
                                                    "did not return any useful results">>))
  /\ toolPos' = toolPos + 1
  /\ pc' = "tools"
  /\ UNCHANGED << storeVars, fnVars, metaVars, nuxt, handler, connected, reqVars, ctxVars, iterationCount, stream, messageContent,
                  toolCalls, query, answer, closed, closedAt, response,
                  modelCalls, deltasSeen, fragsSeen, searchFailed, limitHit >>

\* ------------------------------------------------------- after the loop
\* stream: sendSSE(controller, 'done', {...}); controller.close()
\* JSON:   the max-iterations fallback, then NextResponse.json({ success: true, ... })
Finish ==
  /\ pc = "after"
  /\ IF handler = "stream"
       THEN /\ events' = sendSSE(events,
                           DoneEvent(contextText # "", contextChunks, usedWebSearch))
            /\ closed' = TRUE
            /\ closedAt' = Len(events')
            /\ UNCHANGED << answer, response >>
       ELSE /\ answer' = IF iterationCount >= maxIterations /\ answer = ""
                           THEN Fallback ELSE answer
            /\ response' = [status |-> 200, success |-> TRUE, answer |-> answer',
                            hasContext |-> contextText # "",
                            chunksUsed |-> contextChunks,
                            usedWebSearch |-> usedWebSearch]
            /\ UNCHANGED << events, closed, closedAt >>
  /\ pc' = "finished"
  /\ UNCHANGED << storeVars, fnVars, metaVars, nuxt, handler, connected, reqVars, ctxVars, messages, usedWebSearch, iterationCount,
                  stream, messageContent, toolCalls, toolPos, query, histVars >>

\* ================================================================ the store
Docs == { "d1", "d2" }
\* lengths of the texts that are indexed: no chunk, one batch (2 chunks), two batches (6 chunks)
TextLengths == { 0, 900, 4100 }
Procs == { 1, 2 }

CeilDiv(a, b) == (a + b - 1) \div b

ChunkEndInclusive(startIndex, chunkSize, len) == Min(startIndex + chunkSize + 1, len)

\* const endIndex = Math.min(startIndex + chunkSize, text.length)
ChunkEnd(startIndex, chunkSize, len) == Min(startIndex + chunkSize, len)

NextStartUnguarded(startIndex, endIndex, overlap) == endIndex - overlap

NextStartPastEnd(startIndex, endIndex, overlap) == endIndex + 1

\* nextStartIndex = endIndex - overlap, or endIndex when that would not advance
NextStart(startIndex, endIndex, overlap) ==
  IF endIndex - overlap <= startIndex THEN endIndex ELSE endIndex - overlap

RECURSIVE chunkLoop(_, _, _, _, _, _, _, _)
\* the while loop of chunkText; text.slice(a, b) is the span << a, b >>
\* (chunks.length <= iterations holds in every iteration: stating it in the
\* guard makes TLC evaluate chunks as the loop goes rather than at its end)
chunkLoop(len, chunkSize, overlap, maxChunks, startIndex, chunkIndex, iterations, chunks) ==
  IF ~(startIndex < len /\ iterations < maxChunks /\ Len(chunks) <= iterations) THEN chunks
  ELSE LET endIndex == ChunkEnd(startIndex, chunkSize, len)
           out == IF endIndex - startIndex > 0
                    THEN Append(chunks, [text |-> << startIndex, endIndex >>,
                                         startIndex |-> startIndex,
                                         endIndex |-> endIndex,
                                         chunkIndex |-> chunkIndex])
                    ELSE chunks
       IN chunkLoop(len, chunkSize, overlap, maxChunks,
                    NextStart(startIndex, endIndex, overlap),
                    chunkIndex + 1, iterations + 1, out)

\* chunkText(text, chunkSize, overlap) for a text of length len
chunkText(len, chunkSize, overlap) ==
  IF len = 0 THEN [error |-> "", chunks |-> <<>>]
  ELSE IF chunkSize <= 0
    THEN [error |-> "chunkSize must be greater than 0", chunks |-> <<>>]
  ELSE IF overlap < 0
    THEN [error |-> "overlap must be non-negative", chunks |-> <<>>]
  ELSE IF overlap >= chunkSize
    THEN [error |-> "overlap must be less than chunkSize to prevent infinite loops",
          chunks |-> <<>>]
  ELSE [error |-> "",
        chunks |-> chunkLoop(len, chunkSize, overlap,
                             CeilDiv(len, chunkSize - overlap) + safetyMargin,
                             0, 0, 0, <<>>)]

\* the row indexDocument inserts for one chunk; id is `${documentId}_${chunkIndex}`
Row(d, c) ==
  [id |-> << d, c.chunkIndex >>, document_id |-> d, document_name |-> d,
   chunk_index |-> c.chunkIndex, text |-> c.text,
   start_index |-> c.startIndex, end_index |-> c.endIndex]

\* SELECT * FROM document_chunks WHERE document_id = d
RowsOf(st, d) == { r \in st : r.document_id = d }
DeleteRowsAll(st, d) == {}

DeleteRowsNone(st, d) == st

\* DELETE FROM document_chunks WHERE document_id = ?
DeleteRows(st, d) == st \ RowsOf(st, d)

\* a call's record: st, doc, chunks, i and skipped are its locals; prev (the
\* rows it deleted), seen (what readers saw while it ran) and overlap (another
\* write to its document ran meanwhile) are history
Idle == [st |-> "idle", doc |-> "", chunks |-> <<>>, i |-> 0, skipped |-> {},
         prev |-> {}, seen |-> {}, overlap |-> FALSE]
Running(p) == idx[p].st = "embedding"
RunningOn(d) == { p \in Procs : Running(p) /\ idx[p].doc = d }
\* the calls running on d meet another write to d
Overlapped(ix, d) ==
  [p \in Procs |-> IF p \in RunningOn(d) THEN [ix[p] EXCEPT !.overlap = TRUE]
                                          ELSE ix[p]]

NoDelete == [doc |-> "", changes |-> 0]

StoreInit ==
  /\ store = {}
  /\ idx = [p \in Procs |-> Idle]
  /\ lastWrite = [d \in Docs |-> "none"]
  /\ lastDelete = NoDelete
  /\ nOps = 0

\* indexDocument up to its first await: delete the old rows, chunk the text,
\* return if there is no chunk, else start embedding the first batch.
\* Callers are interchangeable: a call takes the first record not in use.
IndexStart(p, d, len) ==
  /\ ~Running(p)
  /\ \A q \in Procs : q < p => Running(q)
  /\ nOps < MaxOps
  /\ nOps' = nOps + 1
  /\ lastWrite' = [lastWrite EXCEPT ![d] = "index"]
  /\ store' = DeleteRows(store, d)
  /\ LET chunks == chunkText(len, indexChunkSize, indexOverlap).chunks IN
       idx' = [Overlapped(idx, d) EXCEPT ![p] =
                 [st |-> IF Len(chunks) = 0 THEN "done" ELSE "embedding",
                  doc |-> d, chunks |-> chunks, i |-> 0, skipped |-> {},
                  prev |-> RowsOf(store, d), seen |-> {},
                  overlap |-> RunningOn(d) # {}]]
  /\ UNCHANGED << chatVars, fnVars, metaVars, nuxt, lastDelete >>

BatchOfAllRemaining(p) == { k \in 1 .. Len(idx[p].chunks) : idx[p].i < k }

\* the chunks.slice(i, i + batchSize) of a call
BatchOf(p) ==
  { k \in 1 .. Len(idx[p].chunks) : idx[p].i < k /\ k <= idx[p].i + batchSize }

BatchDataAllOrNothing(p, failed) ==
  IF failed = {} THEN { Row(idx[p].doc, idx[p].chunks[k]) : k \in BatchOf(p) } ELSE {}

\* batchData without its null entries: the rows of the chunks of the batch
\* whose embedding was generated
BatchData(p, failed) ==
  { Row(idx[p].doc, idx[p].chunks[k]) : k \in BatchOf(p) \ failed }

\* Promise.all of a batch settles (a failed embedding gives null), the batch is
\* inserted in one transaction, and the next batch starts or the call returns.
\* An insert that hits an existing id fails the transaction and the call.
BatchCommit(p) ==
  /\ Running(p)
  /\ \E failed \in SUBSET BatchOf(p) :
       /\ nOps + Cardinality(failed) <= MaxOps
       /\ nOps' = nOps + Cardinality(failed)
       /\ LET d == idx[p].doc
              data == BatchData(p, failed)
              clash == \E r \in data : \E o \in store : o.id = r.id
              i2 == idx[p].i + batchSize
          IN IF clash
               THEN /\ store' = store
                    /\ idx' = [idx EXCEPT ![p].st = "failed"]
               ELSE /\ store' = store \cup data
                    /\ idx' = [idx EXCEPT
                                 ![p].i = i2,
                                 ![p].skipped = @ \cup { idx[p].chunks[k].chunkIndex : k \in failed },
                                 ![p].st = IF i2 < Len(idx[p].chunks) THEN "embedding" ELSE "done"]
  /\ UNCHANGED << chatVars, fnVars, metaVars, nuxt, lastWrite, lastDelete >>

\* deleteDocumentChunks(documentId): no await before the DELETE runs
Delete(d) ==
  /\ nOps < MaxOps
  /\ nOps' = nOps + 1
  /\ lastWrite' = [lastWrite EXCEPT ![d] = "delete"]
  /\ store' = DeleteRows(store, d)
  /\ lastDelete' = [doc |-> d, changes |-> Cardinality(RowsOf(store, d))]
  /\ idx' = Overlapped(idx, d)
  /\ UNCHANGED << chatVars, fnVars, metaVars, nuxt >>

\* the SELECT of searchSimilarChunks / getAllDocumentChunks for document d;
\* every indexDocument call running on d records what the reader saw
Read(d) ==
  /\ nOps < MaxOps
  /\ nOps' = nOps + 1
  /\ idx' = [p \in Procs |->
               IF p \in RunningOn(d)
                 THEN [idx[p] EXCEPT !.seen = @ \cup { RowsOf(store, d) }]
                 ELSE idx[p]]
  /\ UNCHANGED << chatVars, fnVars, metaVars, nuxt, store, lastWrite, lastDelete >>

\* ------------------------------------------------------ library calls
NoCall == [fn |-> "none"]
NoResult == [error |-> ""]

FnInit ==
  /\ call = NoCall
  /\ result = NoResult

\* the calls of chunkText: every text length and parameter pair of a small
\* grid (invalid pairs included), and the texts of the application's scale
ChunkCalls ==
  { [fn |-> "chunkText", len |-> l, chunkSize |-> c, overlap |-> o] :
      l \in 0 .. MaxTextLen, c \in -1 .. MaxChunkSize, o \in -1 .. MaxChunkSize }
  \cup { [fn |-> "chunkText", len |-> l, chunkSize |-> indexChunkSize,
          overlap |-> indexOverlap] : l \in { 900, 2500, 4100 } }

\* chunkText(text, chunkSize, overlap) runs
ChunkTextCall ==
  /\ call.fn = "chunkText"
  /\ result = NoResult
  /\ result' = chunkText(call.len, call.chunkSize, call.overlap)
  /\ UNCHANGED << chatVars, storeVars, metaVars, nuxt, call >>

\* ------------------------------------------------------------- search
\* scores are kept in hundredths (the vectors used have integer norms)
ScoreScale == 100
ISqrt(n) == CHOOSE r \in 0 .. n : r * r = n
Dot(a, b, i) == a[i] * b[i]
RECURSIVE SumTo(_, _, _, _)
\* the for loop of cosineSimilarity, for one of its three sums
SumTo(a, b, i, acc) ==
  IF i > Len(a) THEN acc ELSE SumTo(a, b, i + 1, acc + Dot(a, b, i))

\* cosineSimilarity(vecA, vecB): throws when the lengths differ, 0 when a norm is 0
cosineSimilarity(vecA, vecB) ==
  IF Len(vecA) # Len(vecB)
    THEN [error |-> "Vectors must have the same length", score |-> 0]
    ELSE LET dotProduct == SumTo(vecA, vecB, 1, 0)
             normA == SumTo(vecA, vecA, 1, 0)
             normB == SumTo(vecB, vecB, 1, 0)
             denominator == ISqrt(normA) * ISqrt(normB)
         IN [error |-> "",
             score |-> IF denominator = 0 THEN 0
                       ELSE (dotProduct * ScoreScale) \div denominator]

\* a stored row with its embedding column
StoredRow(d, c, v) == Row(d, c) @@ [embedding |-> v]

\* the embeddings a row can hold; the last one has another dimensionality
Vectors == { << 5, 0 >>, << 4, 3 >>, << 0, 5 >>, << 0, 0 >> }
WrongDimension == << 5, 0, 0 >>
QueryVectors == { << 5, 0 >>, << 3, 4 >> }

\* the chunks a table can hold: two of document d1, one of document d2
Slots ==
  { << "d1", chunkText(900, indexChunkSize, indexOverlap).chunks[1] >>,
    << "d1", chunkText(900, indexChunkSize, indexOverlap).chunks[2] >>,
    << "d2", chunkText(900, indexChunkSize, indexOverlap).chunks[1] >> }
\* the tables: each of these chunks absent, or stored with one of the vectors
Corpora ==
  { { StoredRow(sl[1], sl[2], f[sl]) : sl \in { x \in Slots : f[x] # <<>> } } :
      f \in [Slots -> Vectors \cup { WrongDimension, <<>> }] }

\* documentIds: not given, or a list
Filters ==
  { [given |-> FALSE, ids |-> <<>>], [given |-> TRUE, ids |-> <<>>],
    [given |-> TRUE, ids |-> << "d1" >>], [given |-> TRUE, ids |-> << "d2" >>],
    [given |-> TRUE, ids |-> << "d1", "d2" >>] }
\* the limits a request body can carry (the routes pass body.limit on as it is)
SearchLimits == { -1, 0, 1, 2, defaultLimit }

SearchCalls ==
  { [fn |-> "searchSimilarChunks", query |-> q, limit |-> l, documentIds |-> f] :
      q \in QueryVectors \cup { <<>> }, l \in SearchLimits, f \in Filters }

\* SELECT * FROM document_chunks [WHERE document_id IN (...)]
Candidates(st, f) ==
  IF f.given /\ Len(f.ids) > 0
    THEN { r \in st : \E i \in 1 .. Len(f.ids) : f.ids[i] = r.document_id }
    ELSE st

\* the orders in which the SELECT can return a set of rows
Orders(S) ==
  { o \in [1 .. Cardinality(S) -> S] : \A i, j \in 1 .. Cardinality(S) : o[i] = o[j] => i = j }

\* Array.prototype.sort((a, b) => b.score - a.score): stable, descending
InsertSorted(sorted, x) ==
  LET k == Cardinality({ i \in 1 .. Len(sorted) : sorted[i].score >= x.score })
  IN SubSeq(sorted, 1, k) \o << x >> \o SubSeq(sorted, k + 1, Len(sorted))
RECURSIVE SortByScore(_, _)
SortByScore(todo, sorted) ==
  IF todo = <<>> THEN sorted
  ELSE SortByScore(Tail(todo), InsertSorted(sorted, Head(todo)))

\* Array.prototype.slice(0, limit) for an integer limit
SliceTo(seq, n) ==
  SubSeq(seq, 1, IF n < 0 THEN (IF Len(seq) + n < 0 THEN 0 ELSE Len(seq) + n)
                           ELSE Min(n, Len(seq)))

\* searchSimilarChunks(query, limit, documentIds) on the rows in the order the
\* SELECT returned them; query <<>> stands for a query whose embedding fails
searchSimilarChunks(c, rows) ==
  IF c.query = <<>> THEN [error |-> "embedding failed", chunks |-> <<>>]
  ELSE IF Len(rows) = 0 THEN [error |-> "", chunks |-> <<>>]
  ELSE LET scored == [ i \in 1 .. Len(rows) |->
                         [chunk |-> rows[i],
                          cos |-> cosineSimilarity(c.query, rows[i].embedding)] ]
       IN IF \E i \in 1 .. Len(rows) : scored[i].cos.error # ""
            THEN [error |-> "Vectors must have the same length", chunks |-> <<>>]
            ELSE LET scoredChunks == [ i \in 1 .. Len(rows) |->
                                         [chunk |-> scored[i].chunk,
                                          score |-> scored[i].cos.score] ]
                     sorted == SortByScore(scoredChunks, <<>>)
                     top == SliceTo(sorted, c.limit)
                 IN [error |-> "",
                     chunks |-> [ i \in 1 .. Len(top) |-> top[i].chunk ]]

\* a search runs: the query is embedded, the rows are read, scored and cut
SearchCall ==
  /\ call.fn = "searchSimilarChunks"
  /\ result = NoResult
  /\ \E rows \in Orders(Candidates(store, call.documentIds)) :
       result' = searchSimilarChunks(call, rows)
  /\ UNCHANGED << chatVars, storeVars, metaVars, nuxt, call >>

\* ====================================================== the metadata store
\* document ids are fresh per upload (Date.now() followed by random digits); here the
\* n-th call that adds a document adds document n
MaxMetaCalls == 3

MetaIdle == [st |-> "idle", op |-> "", id |-> 0, allMetadata |-> <<>>]

MetaInit ==
  /\ metadataFile = <<>>
  /\ meta = [p \in Procs |-> MetaIdle]
  /\ expected = {}
  /\ nMeta = 0

\* a caller is free and every caller before it is busy
FirstFree(p) ==
  /\ meta[p].st = "idle"
  /\ \A q \in Procs : q < p => meta[q].st # "idle"

\* the ids of the entries of an array of metadata
IdsOf(arr) == { arr[i] : i \in 1 .. Len(arr) }

\* addDocumentMetadata(metadata) up to `await readMetadata()`
AddStart(p) ==
  /\ FirstFree(p)
  /\ nMeta < MaxMetaCalls
  /\ nMeta' = nMeta + 1
  /\ meta' = [meta EXCEPT ![p] = [st |-> "reading", op |-> "add", id |-> nMeta + 1,
                                  allMetadata |-> <<>>]]
  /\ UNCHANGED << chatVars, storeVars, fnVars, nuxt, metadataFile, expected >>

\* removeDocumentMetadata(id) up to `await readMetadata()`, for a document
\* whose upload has completed and that no other call is removing
RemoveStart(p, id) ==
  /\ FirstFree(p)
  /\ nMeta < MaxMetaCalls
  /\ id \in expected
  /\ \A q \in Procs : meta[q].st = "idle" \/ meta[q].id # id
  /\ nMeta' = nMeta + 1
  /\ meta' = [meta EXCEPT ![p] = [st |-> "reading", op |-> "remove", id |-> id,
                                  allMetadata |-> <<>>]]
  /\ UNCHANGED << chatVars, storeVars, fnVars, nuxt, metadataFile, expected >>

\* allMetadata.filter(doc => doc.id !== id)
WithoutId(arr, id) == SelectSeq(arr, LAMBDA e : e # id)

\* readMetadata(): the parsed content of the file ([] while it does not exist)
readMetadata(file) == file

\* readMetadata() returns; allMetadata.push(metadata) or the filter; the call
\* now waits for writeMetadata
MetaRead(p) ==
  /\ meta[p].st = "reading"
  /\ LET all == readMetadata(metadataFile) IN
       meta' = [meta EXCEPT
                  ![p].allMetadata = IF meta[p].op = "add"
                                       THEN Append(all, meta[p].id)
                                       ELSE WithoutId(all, meta[p].id),
                  ![p].st = "writing"]
  /\ UNCHANGED << chatVars, storeVars, fnVars, nuxt, metadataFile, expected, nMeta >>

\* writeMetadata(allMetadata): writeFile replaces the content of the file, and
\* the call returns
MetaWrite(p) ==
  /\ meta[p].st = "writing"
  /\ metadataFile' = meta[p].allMetadata
  /\ expected' = IF meta[p].op = "add" THEN expected \cup { meta[p].id }
                                       ELSE expected \ { meta[p].id }
  /\ meta' = [meta EXCEPT ![p] = MetaIdle]
  /\ UNCHANGED << chatVars, storeVars, fnVars, nuxt, nMeta >>

\* ===================================== chunkText of the Nuxt server code
MaxNuxtIterations == 12

\* lengths of the texts: empty, shorter than the overlap, shorter than a
\* chunk, one chunk exactly, several chunks
NuxtTextLengths == { 0, 1, 150, 200, 500, 900, 1000, 1200, 2500, 3000, 4100 }

NuxtIdle == [st |-> "idle"]

\* chunkText(text, 1000, 200) as indexDocument calls it, before the loop
NuxtCall(len) ==
  [st |-> "running", len |-> len, chunkSize |-> indexChunkSize, overlap |-> indexOverlap,
   startIndex |-> 0, chunkIndex |-> 0, chunks |-> <<>>]

\* text.slice(a, b) for b within the text: a negative a counts from the end
SliceStart(a, len) == IF a < 0 THEN (IF len + a > 0 THEN len + a ELSE 0) ELSE Min(a, len)

\* startIndex = endIndex - overlap
NuxtNextStart(startIndex, endIndex, overlap) == endIndex - overlap

\* one iteration of `while (startIndex < text.length)`
NuxtChunkStep ==
  /\ nuxt.st = "running"
  /\ nuxt.startIndex < nuxt.len
  /\ nuxt.chunkIndex < MaxNuxtIterations
  /\ LET endIndex == Min(nuxt.startIndex + nuxt.chunkSize, nuxt.len) IN
       nuxt' = [nuxt EXCEPT
                  !.chunks = Append(@, [text |-> << SliceStart(nuxt.startIndex, nuxt.len),
                                                    endIndex >>,
                                        startIndex |-> nuxt.startIndex,
                                        endIndex |-> endIndex,
                                        chunkIndex |-> nuxt.chunkIndex]),
                  !.startIndex = NuxtNextStart(nuxt.startIndex, endIndex, nuxt.overlap),
                  !.chunkIndex = @ + 1]
  /\ UNCHANGED << chatVars, storeVars, fnVars, metaVars >>

\* the loop condition is false: return chunks
NuxtChunkReturn ==
  /\ nuxt.st = "running"
  /\ ~(nuxt.startIndex < nuxt.len)
  /\ nuxt' = [nuxt EXCEPT !.st = "returned"]
  /\ UNCHANGED << chatVars, storeVars, fnVars, metaVars >>

\* ========================================================= specifications
OtherInit == MetaInit /\ nuxt = NuxtIdle

Init == ChatInit /\ StoreInit /\ FnInit /\ OtherInit

Next ==
  \/ ParseRequest
  \/ DocSearchStart
  \/ SearchReturns
  \/ GetAllReturns
  \/ Seed
  \/ CallModel
  \/ LoopExit
  \/ CreateReturns
  \/ StreamChunk
  \/ StreamThrows
  \/ StreamEnds
  \/ ExecTool
  \/ WebSearchReturns
  \/ Finish

\* one chat request
Spec == Init /\ [][Next]_vars

\* what the handler does on its own between two awaits; the body of the
\* request is taken to arrive
HandlerSteps ==
  \/ ParseRequest
  \/ DocSearchStart
  \/ Seed
  \/ CallModel
  \/ LoopExit
  \/ ExecTool
  \/ Finish

\* one chat request whose handler keeps running; the awaited calls (document
\* search, chat completion and its stream, web search) settle when the other
\* side answers: no timer of the handler settles them
SpecLive == Init /\ [][Next]_vars /\ WF_vars(HandlerSteps)

\* the handler is suspended at an await
Awaiting == pc \in {"search", "getall", "create", "streaming", "websearch"}

\* the client goes away while the handler waits: the response stream is
\* cancelled.  The handler registers no cancel() callback and reads no abort
\* signal, so none of its variables changes.
Disconnect ==
  /\ handler = "stream"
  /\ connected
  /\ Awaiting
  /\ connected' = FALSE
  /\ UNCHANGED << storeVars, fnVars, metaVars, nuxt, handler, pc, reqVars, ctxVars, loopVars,
                  outVars, histVars >>

\* a step of the handler: any step while the client is there, and after that
\* the steps that enqueue no event
HandlerStep ==
  /\ Next
  /\ connected \/ events' = events

\* controller.enqueue on the cancelled stream throws a TypeError; the sendSSE
\* of every catch block it passes through throws again, so the error leaves
\* start() and the handler is over without having closed the stream
EnqueueThrows ==
  /\ ~connected
  /\ ENABLED (Next /\ events' # events)
  /\ pc' = "finished"
  /\ UNCHANGED << storeVars, fnVars, metaVars, nuxt, handler, connected, reqVars, ctxVars,
                  loopVars, outVars, histVars >>

InitCancel == ChatInit /\ handler = "stream" /\ StoreInit /\ FnInit /\ OtherInit

NextCancel ==
  \/ Disconnect
  \/ HandlerStep
  \/ EnqueueThrows

\* one request to the stream handler whose client may disconnect
SpecCancel == InitCancel /\ [][NextCancel]_vars

InitStore == ChatInit /\ handler = "stream" /\ StoreInit /\ FnInit /\ OtherInit

NextStore ==
  \/ \E p \in Procs, d \in Docs, len \in TextLengths : IndexStart(p, d, len)
  \/ \E p \in Procs : BatchCommit(p)
  \/ \E d \in Docs : Delete(d)
  \/ \E d \in Docs : Read(d)

\* concurrent callers of the vector store
SpecStore == InitStore /\ [][NextStore]_vars

InitChunk ==
  /\ ChatInit /\ handler = "stream" /\ StoreInit /\ OtherInit
  /\ call \in ChunkCalls
  /\ result = NoResult

NextChunk ==
  \/ ChunkTextCall

\* calls of chunkText
SpecChunk == InitChunk /\ [][NextChunk]_vars

InitSearch ==
  /\ ChatInit /\ handler = "stream" /\ OtherInit
  /\ store \in Corpora
  /\ idx = [p \in Procs |-> Idle]
  /\ lastWrite = [d \in Docs |-> "none"]
  /\ lastDelete = NoDelete
  /\ nOps = 0
  /\ call \in SearchCalls
  /\ result = NoResult

NextSearch ==
  \/ SearchCall

\* searches of a table
SpecSearch == InitSearch /\ [][NextSearch]_vars

InitMeta == ChatInit /\ handler = "json" /\ StoreInit /\ FnInit /\ MetaInit /\ nuxt = NuxtIdle

NextMeta ==
  \/ \E p \in Procs : AddStart(p)
  \/ \E p \in Procs, id \in 1 .. MaxMetaCalls : RemoveStart(p, id)
  \/ \E p \in Procs : MetaRead(p)
  \/ \E p \in Procs : MetaWrite(p)

\* concurrent uploads and deletions on the metadata file
SpecMeta == InitMeta /\ [][NextMeta]_vars

InitNuxt ==
  /\ ChatInit /\ handler = "json" /\ StoreInit /\ FnInit /\ MetaInit
  /\ nuxt \in { NuxtCall(len) : len \in NuxtTextLengths }

NextNuxt ==
  \/ NuxtChunkStep
  \/ NuxtChunkReturn

\* calls of the Nuxt chunkText
SpecNuxt == InitNuxt /\ [][NextNuxt]_vars

\* =================================================================== claims
LastEvent == events[Len(events)]
IsContentEvent(e) == e.type = "content"
IsSearchWeb(tc) == tc.name = "search_web"
TerminalCount == Cardinality({ i \in 1 .. Len(events) : IsTerminal(events[i]) })

\* C1: the stream handler emits exactly one terminal event (done or error,
\* never both), it is the last event, the stream is closed with it, nothing is
\* enqueued after the close, and the handler never returns with an open stream.
C1_OneTerminalEvent ==
  handler = "stream" =>
    /\ TerminalCount <= 1
    /\ closed <=> (TerminalCount = 1)
    /\ closed => (IsTerminal(LastEvent) /\ closedAt = Len(events))
    /\ closed <=> (pc = "finished")

\* a model stream that breaks after content was already forwarded
C1_Witness ==
  /\ handler = "stream"
  /\ closed
  /\ LastEvent.type = "error"
  /\ \E i \in 1 .. Len(events) : events[i].type = "content"

\* C2: at most maxIterations (5) chat-completion calls are issued in a request
C2_AtMostFiveModelCalls == modelCalls <= maxIterations

\* five rounds, each answered with tool calls, and the request is over
C2_Witness ==
  /\ pc = "finished"
  /\ limitHit
  /\ modelCalls = maxIterations
  /\ Len(toolCalls) > 0

\* C3 (as claimed): when all five rounds request tools, the request ends with
\* the error / fixed fallback message and not with a success `done` event.
C3_RoundLimitFails ==
  (pc = "finished" /\ limitHit) =>
    IF handler = "stream"
      THEN LastEvent.type = "error"
      ELSE response.success = FALSE \/ response.answer = Fallback

ContentChunks ==
  LET ce == SelectSeq(events, IsContentEvent) IN [ i \in 1 .. Len(ce) |-> ce[i].chunk ]
NonEmptyDelta(c) == c # ""
NonEmptyDeltas == SelectSeq(deltasSeen, NonEmptyDelta)

\* C4: the chunks of the content events are exactly the non-empty content
\* deltas of the model, one event per delta, in arrival order, over all rounds.
C4_ContentInOrder == handler = "stream" => ContentChunks = NonEmptyDeltas

\* two different non-empty deltas with an empty one between them were streamed
C4_Witness ==
  /\ handler = "stream"
  /\ pc = "finished"
  /\ Len(deltasSeen) > Len(NonEmptyDeltas)
  /\ Len(NonEmptyDeltas) >= 2
  /\ NonEmptyDeltas[1] # NonEmptyDeltas[2]

Tools == { "document_search", "web_search" }
CountOf(type, tool, k) ==
  Cardinality({ i \in 1 .. k : events[i].type = type /\ events[i].tool = tool })

\* C5 (as claimed): every tool_end follows an open tool_start of the same tool,
\* and every tool_start is ended before the next model call.
C5_ToolEventsPaired ==
  handler = "stream" =>
    \A tool \in Tools :
      /\ \A k \in 1 .. Len(events) :
           /\ CountOf("tool_end", tool, k) <= CountOf("tool_start", tool, k)
           /\ CountOf("tool_start", tool, k) <= CountOf("tool_end", tool, k) + 1
      /\ pc \in {"create", "streaming"} =>
           CountOf("tool_start", tool, Len(events)) = CountOf("tool_end", tool, Len(events))

\* the position of the assistant message of the last completed round
LastAssistant ==
  CHOOSE i \in 1 .. Len(messages) :
    /\ messages[i].role = "assistant"
    /\ \A j \in (i + 1) .. Len(messages) : messages[j].role # "assistant"
\* a round with tool calls is over and the loop is about to test its condition
RoundHandled == pc = "loop" /\ iterationCount >= 1

\* C6 (as claimed): before the next model call the history ends with the
\* round's assistant message followed by one tool message per tool call of
\* the round, with that call's id, in call order.
C6_ToolMessagePerCall ==
  RoundHandled =>
    LET i == LastAssistant
        tcs == messages[i].tool_calls
    IN /\ Len(messages) = i + Len(tcs)
       /\ \A k \in 1 .. Len(tcs) :
            /\ messages[i + k].role = "tool"
            /\ messages[i + k].tool_call_id = tcs[k].id

\* C6 (amended): ... one tool message per tool call of the round that is named
\* search_web, with that call's id, in call order; a call whose arguments do
\* not parse gets the error text and the later calls are still answered.
C6_ToolMessagePerSearchCall ==
  RoundHandled =>
    LET i == LastAssistant
        tcs == SelectSeq(messages[i].tool_calls, IsSearchWeb)
    IN /\ Len(messages) = i + Len(tcs)
       /\ \A k \in 1 .. Len(tcs) :
            /\ messages[i + k].role = "tool"
            /\ messages[i + k].tool_call_id = tcs[k].id
            /\ messages[i + k].content[1] =
                 IF JsonParses(tcs[k].arguments)
                   THEN "Web search performed"
                   ELSE "Error performing web search"

\* a round of two search_web calls, the first of which does not parse
C6_Witness ==
  /\ RoundHandled
  /\ Len(messages[LastAssistant].tool_calls) = 2
  /\ ~JsonParses(messages[LastAssistant].tool_calls[1].arguments)
  /\ JsonParses(messages[LastAssistant].tool_calls[2].arguments)
  /\ messages[Len(messages)].content[1] = "Web search performed"

\* C7: usedWebSearch is true exactly when a search_web call was executed (so it
\* turns true with the first search and stays true), and the done event / the
\* JSON answer carries that value.
C7_UsedWebSearch ==
  /\ usedWebSearch = (searchesRun > 0)
  /\ \A i \in 1 .. Len(events) :
       events[i].type = "done" => events[i].usedWebSearch = (searchesRun > 0)
  /\ response.status = 200 => response.usedWebSearch = (searchesRun > 0)

\* two searches in two rounds, then done with usedWebSearch: true
C7_Witness ==
  /\ handler = "stream"
  /\ pc = "finished"
  /\ searchesRun = 2
  /\ iterationCount = 3
  /\ LastEvent.type = "done"
  /\ LastEvent.usedWebSearch

\* C8: a failed document search produces no error: the handler goes on without
\* context, seeds the no-context prompt, and every later failure of the request
\* is a failure of the model side (client construction, completion call).
C8_SearchFailureTolerated ==
  searchFailed =>
    /\ contextText = ""
    /\ messages # <<>> => messages[1].content = "no-context"
    /\ \A i \in 1 .. Len(events) :
         events[i].type = "error" => events[i].error \in {NoApiKey, ModelError, TypeErr}
    /\ response.status # 0 =>
         (response.status = 200 \/ response.error \in {NoApiKey, ModelError, TypeErr})
    /\ pc = "finished" =>
         \/ modelCalls >= 1
         \/ handler = "stream" /\ LastEvent.error = NoApiKey
         \/ handler = "json" /\ response.error = NoApiKey

\* getAllDocumentChunks threw after the first search had returned chunks, and
\* the request still ended with `done`
C8_Witness ==
  /\ searchFailed
  /\ contextChunks > 0
  /\ handler = "stream"
  /\ pc = "finished"
  /\ modelCalls >= 1
  /\ LastEvent.type = "done"

\* the rows a finished indexDocument call has written for its document
NewRows(p) ==
  { Row(idx[p].doc, idx[p].chunks[k]) :
      k \in { j \in 1 .. Len(idx[p].chunks) :
                idx[p].chunks[j].chunkIndex \notin idx[p].skipped } }

\* C9: a read of document d that runs during a re-index of d (a call of
\* indexDocument that found rows of d, with no other write to d meanwhile)
\* sees either all the rows the document had before or all the rows the call
\* ends up writing, never anything else.
C9_AtomicReplace ==
  \A p \in Procs :
    (idx[p].st = "done" /\ idx[p].prev # {} /\ ~idx[p].overlap)
      => \A rows \in idx[p].seen : rows = idx[p].prev \/ rows = NewRows(p)

\* C10: once deleteDocumentChunks is the last write started on a document and
\* no indexDocument call for it is running any more, the store has no row of
\* that document.
C10_DeleteWins ==
  \A d \in Docs :
    (lastWrite[d] = "delete" /\ RunningOn(d) = {}) => RowsOf(store, d) = {}

\* the primary key of document_chunks rejects a batch of a concurrent call
ClashReached == \E p \in Procs : idx[p].st = "failed"

\* C11: deleteDocumentChunks(d) removes every row of d and no row of another
\* document; when d has no row (never indexed, or already deleted) the call
\* goes through all the same (it has no outcome that depends on the number of
\* rows removed) and leaves the store as it was.
C11_DeleteExact ==
  /\ [](nOps < MaxOps => \A d \in Docs : ENABLED Delete(d))
  /\ [][\A d \in Docs : Delete(d) =>
          /\ RowsOf(store', d) = {}
          /\ \A e \in Docs \ {d} : RowsOf(store', e) = RowsOf(store, e)
          /\ RowsOf(store, d) = {} => store' = store]_vars

\* a delete that found nothing, of a document deleted before, while the other
\* document keeps its rows
C11_Witness ==
  /\ lastDelete.doc = "d1"
  /\ lastDelete.changes = 0
  /\ lastWrite["d1"] = "delete"
  /\ RunningOn("d1") = {}
  /\ \E p \in Procs : idx[p].doc = "d1" /\ idx[p].st = "done" /\ idx[p].chunks # <<>>
  /\ RowsOf(store, "d2") # {}

\* C12: with no other write to its document meanwhile, an indexDocument call
\* never fails because embeddings fail, and when it returns the store holds,
\* for its document, exactly the rows of the chunks whose embedding succeeded
\* (the chunks of the same batch and of the later batches included).
C12_FailedChunkSkipped ==
  [][\A p \in Procs :
       (Running(p) /\ ~idx'[p].overlap) =>
         /\ idx'[p].st # "failed"
         /\ idx'[p].st = "done" => RowsOf(store', idx[p].doc) = NewRows(p)']_vars

\* a text of two batches, one embedding of the first batch failed, the call is
\* over and the other five chunks are stored
C12_Witness ==
  \E p \in Procs :
    /\ idx[p].st = "done"
    /\ ~idx[p].overlap
    /\ Len(idx[p].chunks) > batchSize
    /\ \E c \in idx[p].skipped : c < batchSize
    /\ RowsOf(store, idx[p].doc) = NewRows(p)
    /\ Cardinality(RowsOf(store, idx[p].doc)) = Len(idx[p].chunks) - 1

\* the rows of all the chunks of a call's text
FullRows(p) ==
  { Row(idx[p].doc, idx[p].chunks[k]) : k \in 1 .. Len(idx[p].chunks) }

\* what every step IndexStart(p, d, len) does to the record of p, and every
\* step BatchCommit(p): they tell in one look that a step is none of these
StartsOn(p, d) == ~Running(p) /\ idx'[p].doc = d /\ idx'[p].i = 0 /\ nOps' = nOps + 1
Advances(p) == Running(p) /\ (idx'[p].i # idx[p].i \/ idx'[p].st # idx[p].st)

\* C13: indexDocument first removes exactly the rows its document had, and no
\* step of it touches a row of another document; when the document held the
\* rows of the same text, all embeddings succeed and no other write to the
\* document overlaps, the call ends without error and the document has the
\* same rows again (same ids, same spans, same number).
C13_ReindexIdempotent ==
  [][\A p \in Procs :
       /\ \A d \in Docs, len \in TextLengths :
            (StartsOn(p, d) /\ IndexStart(p, d, len)) =>
              /\ store' = store \ RowsOf(store, d)
              /\ Cardinality(store) - Cardinality(store') = Cardinality(idx'[p].prev)
       /\ (Advances(p) /\ BatchCommit(p)) =>
            \A e \in Docs \ {idx[p].doc} : RowsOf(store', e) = RowsOf(store, e)
       /\ (Running(p) /\ ~idx'[p].overlap /\ idx'[p].skipped = {}
             /\ idx[p].prev = FullRows(p)) =>
            /\ idx'[p].st # "failed"
            /\ idx'[p].st = "done" => RowsOf(store', idx[p].doc) = idx[p].prev]_vars

\* a document of two batches was indexed twice with the same text, next to
\* another document that kept its rows
C13_Witness ==
  \E p \in Procs :
    /\ idx[p].st = "done"
    /\ ~idx[p].overlap
    /\ idx[p].skipped = {}
    /\ Len(idx[p].chunks) > batchSize
    /\ idx[p].prev = FullRows(p)
    /\ RowsOf(store, idx[p].doc) = idx[p].prev
    /\ \E e \in Docs \ {idx[p].doc} : RowsOf(store, e) # {}

Returned == call.fn = "chunkText" /\ result # NoResult
ValidPair == call.chunkSize > 0 /\ 0 <= call.overlap /\ call.overlap < call.chunkSize

\* C14: for a valid (chunkSize, overlap) chunkText returns (it does not throw
\* and its loop ends before the safety limit), every chunk is non-empty and
\* no chunk is longer than chunkSize.
C14_ChunksBounded ==
  (Returned /\ ValidPair) =>
    /\ result.error = ""
    /\ Len(result.chunks) < CeilDiv(call.len, call.chunkSize - call.overlap) + safetyMargin
    /\ \A k \in 1 .. Len(result.chunks) :
         /\ result.chunks[k].endIndex - result.chunks[k].startIndex > 0
         /\ result.chunks[k].endIndex - result.chunks[k].startIndex <= call.chunkSize
         /\ result.chunks[k].text = << result.chunks[k].startIndex, result.chunks[k].endIndex >>

\* several chunks, the first of full size and the last one shorter
C14_Witness ==
  /\ Returned /\ ValidPair
  /\ call.overlap > 0
  /\ Len(result.chunks) >= 3
  /\ result.chunks[1].endIndex - result.chunks[1].startIndex = call.chunkSize
  /\ result.chunks[Len(result.chunks)].endIndex
       - result.chunks[Len(result.chunks)].startIndex < call.chunkSize

\* C15: startIndex strictly increases from each chunk to the next.
C15_StartsIncrease ==
  Returned =>
    \A k \in 1 .. Len(result.chunks) - 1 :
      result.chunks[k].startIndex < result.chunks[k + 1].startIndex

\* the last chunk ends the text, where endIndex - overlap does not advance
C15_Witness ==
  /\ Returned
  /\ Len(result.chunks) >= 3
  /\ LET last == result.chunks[Len(result.chunks)] IN
       /\ last.endIndex = call.len
       /\ last.endIndex - call.overlap <= last.startIndex

ChunkStarts == [ k \in 1 .. Len(result.chunks) |-> result.chunks[k].startIndex ]

\* C16 (as claimed): 2500 characters with chunkSize 1000 and overlap 200 give
\* exactly 4 chunks, starting at 0, 800, 1600 and 2400.
C16_Scenario2500 ==
  (Returned /\ call.len = 2500 /\ call.chunkSize = 1000 /\ call.overlap = 200) =>
    ChunkStarts = << 0, 800, 1600, 2400 >>

\* C17 (as claimed): chunkSize <= 0, overlap < 0 or overlap >= chunkSize make
\* chunkText fail with an error, whatever the text.
C17_InvalidPairFails ==
  (Returned /\ ~ValidPair) => result.error # ""

Searched == call.fn = "searchSimilarChunks" /\ result # NoResult
ScoreOf(r) == cosineSimilarity(call.query, r.embedding).score
Returned_ids == { result.chunks[i].id : i \in 1 .. Len(result.chunks) }

\* C18 (as claimed): for every limit k a request can carry, a search that
\* returns gives at most k chunks (none for a k below 0), in non-increasing
\* order of similarity, and no candidate left out scores higher than a
\* returned one.
C18_TopK ==
  (Searched /\ result.error = "") =>
    /\ Len(result.chunks) <= (IF call.limit < 0 THEN 0 ELSE call.limit)
    /\ \A i \in 1 .. Len(result.chunks) - 1 :
         ScoreOf(result.chunks[i]) >= ScoreOf(result.chunks[i + 1])
    /\ \A r \in Candidates(store, call.documentIds) :
         r.id \notin Returned_ids =>
           \A i \in 1 .. Len(result.chunks) : ScoreOf(r) <= ScoreOf(result.chunks[i])

\* C19 (as claimed): when a documentIds list is passed, the empty list
\* included, every returned chunk belongs to a document of the list.
C19_FilterRespected ==
  (Searched /\ call.documentIds.given) =>
    \A i \in 1 .. Len(result.chunks) :
      \E j \in 1 .. Len(call.documentIds.ids) :
        call.documentIds.ids[j] = result.chunks[i].document_id

\* C20 (as claimed): when a candidate row has a vector of another
\* dimensionality than the query, the search still succeeds and returns
\* chunks of the documents that have no such row.
C20_CorruptChunkIsolated ==
  LET cand == Candidates(store, call.documentIds)
      bad == { r \in cand : Len(r.embedding) # Len(call.query) }
      others == { r \in cand : \A b \in bad : b.document_id # r.document_id }
  IN (Searched /\ call.query # <<>> /\ call.limit > 0 /\ bad # {} /\ others # {}) =>
       /\ result.error = ""
       /\ \E i \in 1 .. Len(result.chunks) : result.chunks[i] \in others

\* C24: a request whose `question` is missing or is not a string is rejected
\* before any work: the stream carries the single `error` event and is closed
\* (the JSON handler answers 400), no tool_start, thinking or content event was
\* sent, no document search was started and no model call was issued.
C24_BadQuestionRejected ==
  (pc # "start" /\ question.t # "string") =>
    /\ pc = "finished"
    /\ modelCalls = 0 /\ searchesRun = 0
    /\ ~searchFailed /\ contextChunks = 0 /\ messages = <<>>
    /\ handler = "stream" =>
         /\ Len(events) = 1 /\ events[1].type = "error"
         /\ closed /\ closedAt = 1
    /\ handler = "json" => response.status \in {400, 500}

\* a body whose question is a number: rejected with the validation message
C24_Witness ==
  /\ handler = "stream"
  /\ question.t = "number"
  /\ events = << ErrorEvent(QuestionReq) >>
  /\ closed

\* C29 (as claimed): in every successful result (the `done` event, the JSON
\* answer with status 200) hasContext is true exactly when chunksUsed > 0.
C29_ContextFieldsAgree ==
  /\ (handler = "stream" /\ closed /\ LastEvent.type = "done") =>
       (LastEvent.hasContext <=> LastEvent.chunksUsed > 0)
  /\ (handler = "json" /\ response.status = 200) =>
       (response.hasContext <=> response.chunksUsed > 0)

\* the document search ran to its end and the context was assembled
ContextAssembled ==
  /\ Len(documentIds) > 0 /\ ~QuestionRejected(question) /\ ~searchFailed
  /\ pc \notin {"start", "docsearch", "search", "getall"}

\* C23 (as claimed): the context of a General question holds at most 50 chunks
\* (at most 25 unless the fallback read replaced a search result of fewer than
\* 10), the context of a Specific question at most `limit` chunks.
C23_BreadthFollowsClass ==
  ContextAssembled =>
    IF isGeneral THEN contextChunks <= fallbackCap
                 ELSE contextChunks <= (IF limit < 0 THEN 0 ELSE limit)

\* the fragments read so far that carried index i, in arrival order
FragsOf(i) == SelectSeq(fragsSeen, LAMBDA f : f.index = i)

RECURSIVE JoinNames(_)
JoinNames(fs) == IF fs = <<>> THEN "" ELSE Head(fs).name \o JoinNames(Tail(fs))

RECURSIVE JoinArguments(_)
JoinArguments(fs) ==
  IF fs = <<>> THEN "" ELSE Head(fs).arguments \o JoinArguments(Tail(fs))

\* C25: while the completion stream is read, and so when it has ended, the
\* name and the argument JSON of the tool call at each index are the
\* concatenation, in arrival order, of the fragments that carried that index
\* (an index no fragment carried is an unassigned slot); the tool calls are
\* parsed and executed only when the stream of their round is exhausted, and
\* they are the accumulated ones.
C25_FragmentsPerIndex ==
  handler = "stream" =>
    /\ pc = "streaming" =>
         /\ \A k \in 1 .. Len(fragsSeen) : fragsSeen[k].index < Len(toolCalls)
         /\ \A i \in 0 .. Len(toolCalls) - 1 :
              IF FragsOf(i) = <<>>
                THEN IsHole(toolCalls[i + 1])
                ELSE /\ ~IsHole(toolCalls[i + 1])
                     /\ toolCalls[i + 1].name = JoinNames(FragsOf(i))
                     /\ toolCalls[i + 1].arguments = JoinArguments(FragsOf(i))
    /\ pc \in {"tools", "websearch"} =>
         /\ stream = <<>>
         /\ messages[LastAssistant].tool_calls = toolCalls

\* the stream of a round has ended after fragments of index 0 (two of them)
\* and of index 1 arrived interleaved
C25_Witness ==
  /\ handler = "stream"
  /\ pc = "streaming" /\ stream = <<>>
  /\ Len(FragsOf(0)) = 2 /\ Len(FragsOf(1)) = 1
  /\ fragsSeen[2].index = 1
  /\ toolCalls[1].arguments = GoodArgs

\* the rows of the chunks of the batches a call has been through (chunks
\* 1 .. i) whose embedding was generated
Committed(p) ==
  { Row(idx[p].doc, idx[p].chunks[k]) :
      k \in { j \in 1 .. Len(idx[p].chunks) :
                j <= idx[p].i /\ idx[p].chunks[j].chunkIndex \notin idx[p].skipped } }

\* C26: with no other write to its document meanwhile, at every moment of an
\* indexDocument call the stored rows of its document are exactly the rows of
\* the successfully embedded chunks of a whole number of leading batches of 5
\* (no batch is ever stored in part, no batch before an unfinished one), and
\* every step up to the return of the call only adds rows to them.
C26_LeadingBatches ==
  /\ [](\A p \in Procs :
          (Running(p) /\ ~idx[p].overlap) =>
            /\ idx[p].i % batchSize = 0
            /\ idx[p].i < Len(idx[p].chunks)
            /\ RowsOf(store, idx[p].doc) = Committed(p))
  /\ [][\A p \in Procs :
          (Running(p) /\ ~idx'[p].overlap) =>
            /\ RowsOf(store, idx[p].doc) \subseteq RowsOf(store', idx[p].doc)
            /\ RowsOf(store', idx[p].doc) = Committed(p)'
            /\ idx'[p].i \in { idx[p].i, idx[p].i + batchSize }]_vars

\* a text of two batches in the middle of its run: the first batch is stored
\* but for one chunk whose embedding failed, no row of the second batch is
C26_Witness ==
  \E p \in Procs :
    /\ Running(p) /\ ~idx[p].overlap
    /\ idx[p].i = batchSize /\ Len(idx[p].chunks) > batchSize
    /\ idx[p].skipped # {}
    /\ RowsOf(store, idx[p].doc) = Committed(p)
    /\ Cardinality(RowsOf(store, idx[p].doc)) = batchSize - 1

\* C27: for a non-empty text and a valid (chunkSize, overlap) the loop of
\* chunkText ends because the text is exhausted and not because the iteration
\* cap is reached: the last chunk was pushed before the cap and ends at the
\* text length, the first chunk starts at 0, and every chunk starts at or
\* before the end of the previous one, so that the chunks cover the text.
C27_CoversWholeText ==
  (Returned /\ ValidPair /\ call.len > 0) =>
    LET n == Len(result.chunks) IN
    /\ n >= 1
    /\ result.chunks[n].chunkIndex + 1
         < CeilDiv(call.len, call.chunkSize - call.overlap) + safetyMargin
    /\ result.chunks[1].startIndex = 0
    /\ result.chunks[n].endIndex = call.len
    /\ \A k \in 1 .. n - 1 :
         result.chunks[k + 1].startIndex <= result.chunks[k].endIndex

\* the text of 4100 characters chunked as indexDocument does: six chunks that
\* overlap by 200, the last one ending at 4100
C27_Witness ==
  /\ Returned /\ ValidPair
  /\ call.len = 4100 /\ call.chunkSize = indexChunkSize /\ call.overlap = indexOverlap
  /\ Len(result.chunks) = 6
  /\ result.chunks[2].startIndex = result.chunks[1].endIndex - indexOverlap
  /\ result.chunks[6].endIndex = 4100

\* C28 (as claimed): the window start of the Nuxt chunkText strictly increases
\* on every iteration: the start of the next window lies past the start of
\* the chunk just pushed.
C28_NuxtStartAdvances ==
  (nuxt.st # "idle" /\ Len(nuxt.chunks) > 0) =>
    nuxt.startIndex > nuxt.chunks[Len(nuxt.chunks)].startIndex

\* the entries of the metadata file
Listed == IdsOf(metadataFile)
AllComplete == \A p \in Procs : meta[p].st = "idle"

\* C30 (as claimed): once every addDocumentMetadata and removeDocumentMetadata
\* call has completed, the metadata list holds exactly the documents that were
\* added and not removed.
C30_MetadataConsistent == AllComplete => Listed = expected

\* C21 (as claimed): every chat request eventually ends: the stream handler
\* has emitted its terminal event and closed the stream, the JSON handler has
\* answered, also when an awaited external call never answers.
C21_EveryRequestEnds ==
  <>(/\ pc = "finished"
     /\ handler = "stream" => (closed /\ IsTerminal(LastEvent))
     /\ handler = "json" => response # NoResponse)

\* C22 (as claimed): once the client has disconnected, the request issues no
\* further chat-completion call and starts no further web search.
C22_AbandonedOnDisconnect ==
  [][~connected =>
       /\ modelCalls' = modelCalls
       /\ ~(pc' = "websearch" /\ pc # "websearch")]_vars

====
